---- MODULE Spec2Model ----
(***************************************************************************)
(* DBManager (src/db/db_manager.py): a SQLite store of papers, tags and    *)
(* the paper_tags association, with one action per public operation.       *)
(*                                                                         *)
(* Text is a sequence of one-character strings (<<"G","n">> is "Gn") so    *)
(* that ','.join, str.split(','), LIKE and the binary string comparison    *)
(* are computed character by character.  SQL NULL / Python None is the     *)
(* value NULL, which is not a text.  Tables are sequences of rows in       *)
(* rowid order, so that a key constraint is something an insert checks.    *)
(* Inputs stay inside the declared parameter types (paper_id: str,         *)
(* tags: List[str], required paper fields present and not None).           *)
(***************************************************************************)
EXTENDS Integers, Sequences, FiniteSets, TLC

VARIABLES papers, tags, paper_tags, conns, call, result

vars == <<papers, tags, paper_tags, conns, call, result>>

(* ------------------------------ bounds --------------------------------- *)

\* longest tag list passed to add_tags
MaxTagList == 2

\* connections left open that the model still counts
MaxOpen == 1

(* ------------------------------- text ---------------------------------- *)

NULL == <<"NULL">>

\* ASCII code of the characters used
Code(ch) ==
    CASE ch = "%" -> 37 [] ch = "," -> 44 [] ch = "1" -> 49 [] ch = "2" -> 50
      [] ch = "G" -> 71 [] ch = "N" -> 78 [] ch = "_" -> 95 [] ch = "a" -> 97
      [] ch = "b" -> 98 [] ch = "g" -> 103 [] ch = "n" -> 110
      [] ch = "s" -> 115 [] ch = "x" -> 120 [] ch = "y" -> 121
      [] ch = "z" -> 122 [] OTHER -> 63

\* SQLite's LIKE folds the ASCII upper-case letters
Fold(ch) == CASE ch = "G" -> "g" [] ch = "N" -> "n" [] OTHER -> ch

RECURSIVE Join_nosep(_)
\* ''.join(names): the names run together
Join_nosep(names) ==
    IF names = <<>> THEN <<>> ELSE names[1] \o Join_nosep(Tail(names))

RECURSIVE Join(_)
\* ','.join(names)
Join(names) ==
    IF names = <<>> THEN <<>>
    ELSE IF Len(names) = 1 THEN names[1]
    ELSE names[1] \o <<",">> \o Join(Tail(names))

RECURSIVE Split(_)
\* text.split(','): always at least one part
Split(text) ==
    IF \A i \in 1..Len(text) : text[i] # ","
    THEN <<text>>
    ELSE LET k == CHOOSE i \in 1..Len(text) :
                      text[i] = "," /\ \A j \in 1..(i-1) : text[j] # ","
         IN  <<SubSeq(text, 1, k-1)>> \o Split(SubSeq(text, k+1, Len(text)))

RECURSIVE Like(_, _)
\* text LIKE pat: % matches any run, _ any one character, letters fold case
Like(pat, text) ==
    IF pat = <<>> THEN text = <<>>
    ELSE IF Head(pat) = "%"
         THEN Like(Tail(pat), text) \/ (text # <<>> /\ Like(pat, Tail(text)))
         ELSE /\ text # <<>>
              /\ (Head(pat) = "_" \/ Fold(Head(pat)) = Fold(Head(text)))
              /\ Like(Tail(pat), Tail(text))

\* a NULL operand makes LIKE NULL, which a WHERE clause rejects
LikeCell(pat, cell) == cell # NULL /\ Like(pat, cell)

RECURSIVE TextGE(_, _)
\* a >= b under the BINARY collation (bytewise)
TextGE(a, b) ==
    IF b = <<>> THEN TRUE
    ELSE IF a = <<>> THEN FALSE
    ELSE IF Code(Head(a)) # Code(Head(b)) THEN Code(Head(a)) > Code(Head(b))
    ELSE TextGE(Tail(a), Tail(b))

\* Python truthiness of an Optional[str] argument
Truthy(arg) == arg # NULL /\ arg # <<>>

(* ------------------------------ schema --------------------------------- *)

\* columns of the papers table, in declaration order
Columns ==
    {"id", "title", "authors", "abstract", "source", "publication_date",
     "access_date", "pdf_path", "bibtex_path", "endnote_path", "is_paywalled",
     "summary", "implications", "topic_category", "error_log"}

\* id TEXT: no key on the column
PrimaryKeyConflict_off(tbl, id) == FALSE

\* id TEXT PRIMARY KEY: a row with this id is already in the table
PrimaryKeyConflict(tbl, id) == \E i \in 1..Len(tbl) : tbl[i].id = id

\* name TEXT NOT NULL UNIQUE: a row with this name is already in the table
UniqueNameConflict(tbl, name) == \E i \in 1..Len(tbl) : tbl[i].name = name

\* PRIMARY KEY (paper_id, tag_id): this pair is already in the table
PairConflict(tbl, paper_id, tag_id) ==
    \E i \in 1..Len(tbl) : tbl[i].paper_id = paper_id /\ tbl[i].tag_id = tag_id

\* INTEGER PRIMARY KEY AUTOINCREMENT: one more than the largest id ever used
\* (nothing deletes a tag and a rollback restores the sequence)
NextTagId(tbl) ==
    IF tbl = <<>> THEN 1
    ELSE 1 + (CHOOSE m \in {tbl[i].id : i \in 1..Len(tbl)} :
                  \A i \in 1..Len(tbl) : tbl[i].id <= m)

\* DROP TABLE, CREATE TABLE: the table starts empty again
CreateTable_recreate(tbl) == <<>>

\* CREATE TABLE IF NOT EXISTS on a store that has the table: left as it is
CreateTableIfNotExists(tbl) == tbl

\* a connection the operation opened and closed
Closed(n) == {n}

\* a connection the operation opened and never closed: open until the
\* runtime finalises the unreferenced object, which it may or may not have done
Unclosed(n) == {n} \cup (IF n < MaxOpen THEN {n + 1} ELSE {})

(* --------------------------- return values ----------------------------- *)

RetBool(b) == [kind |-> "bool", val |-> b]
RetNone == [kind |-> "none", val |-> NULL]
RetDict(d) == [kind |-> "dict", val |-> d]
RetList(l) == [kind |-> "list", val |-> l]
\* an exception that leaves the operation uncaught
Raised == [kind |-> "raise", val |-> NULL]

(* ------------------------------ add_paper ------------------------------ *)

\* paper.get(key, default)
DictGet(d, key, default) == IF key \in DOMAIN d THEN d[key] ELSE default

\* the VALUES tuple of the INSERT; error_log is not in the column list
PaperRow(paper, now) ==
    [id |-> paper.id,
     title |-> paper.title,
     authors |-> Join(paper.authors),
     abstract |-> DictGet(paper, "abstract", NULL),
     source |-> paper.source,
     publication_date |-> paper.publication_date,
     access_date |-> now,
     pdf_path |-> DictGet(paper, "pdf_path", NULL),
     bibtex_path |-> DictGet(paper, "bibtex_path", NULL),
     endnote_path |-> DictGet(paper, "endnote_path", NULL),
     is_paywalled |-> DictGet(paper, "is_paywalled", FALSE),
     summary |-> DictGet(paper, "summary", NULL),
     implications |-> DictGet(paper, "implications", NULL),
     topic_category |-> DictGet(paper, "topic_category", NULL),
     error_log |-> NULL]

\* outcome of add_paper: the committed papers table and the return value.
\* err: the engine reports a storage error (sqlite3.Error) during the call
AddPaperRun(tbl, paper, now, err) ==
    IF err \/ PrimaryKeyConflict(tbl, paper.id)
    THEN [papers |-> tbl, ret |-> RetBool(FALSE)]
    ELSE [papers |-> Append(tbl, PaperRow(paper, now)), ret |-> RetBool(TRUE)]

(* ------------------------- get_paper / search -------------------------- *)

\* SELECT t.name FROM tags t JOIN paper_tags pt ON t.id = pt.tag_id
\* WHERE pt.paper_id = ?   (one row per matching pair, in paper_tags order)
TagNames(tagtbl, pttbl, paper_id) ==
    LET Pairs == {<<i, j>> \in (1..Len(pttbl)) \X (1..Len(tagtbl)) :
                     pttbl[i].paper_id = paper_id
                     /\ pttbl[i].tag_id = tagtbl[j].id}
        RECURSIVE Emit(_, _)
        Emit(i, j) ==
            IF i > Len(pttbl) THEN <<>>
            ELSE IF j > Len(tagtbl) THEN Emit(i + 1, 1)
            ELSE (IF <<i, j>> \in Pairs THEN <<tagtbl[j].name>> ELSE <<>>)
                 \o Emit(i, j + 1)
    IN  Emit(1, 1)

\* dict(zip(columns, row)) with authors split and tags attached
PaperDict(row, tagtbl, pttbl) ==
    [k \in Columns \cup {"tags"} |->
        IF k = "tags" THEN TagNames(tagtbl, pttbl, row.id)
        ELSE IF k = "authors" THEN Split(row.authors)
        ELSE row[k]]

\* outcome of get_paper once the SELECTs ran
GetPaperRun(tbl, tagtbl, pttbl, paper_id) ==
    IF \E i \in 1..Len(tbl) : tbl[i].id = paper_id
    THEN RetDict(PaperDict(tbl[CHOOSE i \in 1..Len(tbl) : tbl[i].id = paper_id],
                           tagtbl, pttbl))
    ELSE RetNone

\* the WHERE clause search_papers builds
SearchWhere(row, query, source, from_date) ==
    LET pat == <<"%">> \o query \o <<"%">>
    IN  /\ (LikeCell(pat, row.title) \/ LikeCell(pat, row.abstract))
        /\ (Truthy(source) => row.source = source)
        /\ (Truthy(from_date) => TextGE(row.publication_date, from_date))

\* outcome of search_papers: the matching rows, in table order
SearchPapersRun(tbl, tagtbl, pttbl, query, source, from_date) ==
    LET Match(row) == SearchWhere(row, query, source, from_date)
        rows == SelectSeq(tbl, Match)
    IN  RetList([i \in 1..Len(rows) |-> PaperDict(rows[i], tagtbl, pttbl)])

(* ------------------------------- add_tags ------------------------------ *)

\* INSERT INTO tags with no conflict check on the name
InsertTag_dup(tbl, name) == Append(tbl, [id |-> NextTagId(tbl), name |-> name])

\* INSERT OR IGNORE INTO tags (name) VALUES (?)
InsertOrIgnoreTag(tbl, name) ==
    IF UniqueNameConflict(tbl, name) THEN tbl
    ELSE Append(tbl, [id |-> NextTagId(tbl), name |-> name])

\* SELECT id FROM tags WHERE name = ?  followed by fetchone()[0]
SelectTagId(tbl, name) ==
    tbl[CHOOSE i \in 1..Len(tbl) :
            tbl[i].name = name /\ \A j \in 1..(i-1) : tbl[j].name # name].id

\* INSERT OR IGNORE INTO paper_tags (paper_id, tag_id) VALUES (?, ?)
\* (foreign keys are declared; the connection never turns their checking on)
InsertOrIgnorePaperTag(tbl, paper_id, tag_id) ==
    IF PairConflict(tbl, paper_id, tag_id) THEN tbl
    ELSE Append(tbl, [paper_id |-> paper_id, tag_id |-> tag_id])

\* the statements of one add_tags call are numbered 1 .. 3*Len(tag_list),
\* three per tag, and the commit is statement 3*Len(tag_list)+1
CommitStep(tag_list) == 3 * Len(tag_list) + 1

RECURSIVE TagLoop(_, _, _, _, _)
\* the for loop from tag k on, inside the open transaction; failAt is the
\* statement at which the engine reports a storage error (0: none).
\* Gives the uncommitted tables and whether the loop ran to its end.
TagLoop(work, paper_id, tag_list, k, failAt) ==
    IF k > Len(tag_list) THEN [work |-> work, ok |-> TRUE]
    ELSE
      LET s == 3 * (k - 1)
          t1 == InsertOrIgnoreTag(work.tags, tag_list[k])
          tag_id == SelectTagId(t1, tag_list[k])
          pt1 == InsertOrIgnorePaperTag(work.paper_tags, paper_id, tag_id)
      IN  IF failAt = s + 1 THEN [work |-> work, ok |-> FALSE]
          ELSE IF failAt \in {s + 2, s + 3}
               THEN [work |-> [work EXCEPT !.tags = t1], ok |-> FALSE]
          ELSE TagLoop([tags |-> t1, paper_tags |-> pt1],
                       paper_id, tag_list, k + 1, failAt)

\* no rollback: what the transaction wrote so far stays
Rollback_keep(committed, work) == work

\* conn.rollback(): the committed tables stand, the uncommitted ones are dropped
Rollback(committed, work) == committed

\* outcome of add_tags: the committed tags and paper_tags tables
AddTagsRun(committed, paper_id, tag_list, failAt) ==
    LET r == TagLoop(committed, paper_id, tag_list, 1, failAt)
    IN  IF r.ok /\ failAt # CommitStep(tag_list)
        THEN r.work
        ELSE Rollback(committed, r.work)

(* ----------------------------- update_paper ---------------------------- *)

\* the allow-list with source added
valid_fields_wide ==
    {"title", "authors", "abstract", "source", "pdf_path", "bibtex_path",
     "endnote_path", "is_paywalled", "summary", "implications",
     "topic_category", "error_log"}

valid_fields ==
    {"title", "authors", "abstract", "pdf_path", "bibtex_path",
     "endnote_path", "is_paywalled", "summary", "implications",
     "topic_category", "error_log"}

\* no filter: every key of updates
UpdateFields_all(updates) == DOMAIN updates

\* the keys of updates that pass the filter
UpdateFields(updates) == {f \in DOMAIN updates : f \in valid_fields}

\* value if field != 'authors' else ','.join(value)
UpdateValue(field, value) == IF field = "authors" THEN Join(value) ELSE value

\* UPDATE papers SET f = ?, ... WHERE id = ?
UpdateRows(tbl, paper_id, updates) ==
    [i \in 1..Len(tbl) |->
        IF tbl[i].id = paper_id
        THEN [c \in Columns |->
                 IF c \in UpdateFields(updates)
                 THEN UpdateValue(c, updates[c])
                 ELSE tbl[i][c]]
        ELSE tbl[i]]

\* outcome of update_paper: the committed papers table, the return value and
\* whether a connection was opened at all
UpdatePaperRun(tbl, paper_id, updates, err) ==
    IF UpdateFields(updates) = {}
    THEN [papers |-> tbl, ret |-> RetBool(FALSE), connected |-> FALSE]
    ELSE IF err
    THEN [papers |-> tbl, ret |-> RetBool(FALSE), connected |-> TRUE]
    ELSE [papers |-> UpdateRows(tbl, paper_id, updates),
          ret |-> RetBool(TRUE), connected |-> TRUE]

(* ------------------------------- inputs -------------------------------- *)

PaperIds == {"p1", "p2"}

\* a paper with the required fields only
PaperGn ==
    [id |-> "p1", title |-> <<"G", "n">>, authors |-> << <<"a">>, <<"b">> >>,
     source |-> <<"x">>, publication_date |-> <<"1">>]

\* a paper with optional fields and an author name that contains a comma
PaperB ==
    [id |-> "p2", title |-> <<"b">>, authors |-> << <<"a", ",", "b">> >>,
     abstract |-> <<"g", "N">>, source |-> <<"y">>,
     publication_date |-> <<"2">>, is_paywalled |-> TRUE, summary |-> <<"s">>]

\* a paper with the id of PaperGn and an empty author list
PaperZ ==
    [id |-> "p1", title |-> <<"z">>, authors |-> << >>, abstract |-> NULL,
     source |-> <<"y">>, publication_date |-> <<"2">>]

PaperInputs == {PaperGn, PaperB, PaperZ}

\* datetime.now().isoformat()
Times == {<<"2">>}

\* an allowed key and a key that is no column
UpdateTitle == [title |-> <<"N">>, hacker_field |-> <<"x">>]

\* an allowed key and keys that are columns but not allowed
UpdateAuthors ==
    [authors |-> << <<"b">>, <<"a">> >>, id |-> "p2", source |-> <<"z">>]

\* no allowed key
UpdateBogus == [bogus |-> <<"1">>]

UpdateInputs ==
    { UpdateTitle, UpdateAuthors, UpdateBogus,
      [authors |-> << >>, is_paywalled |-> TRUE],
      [source |-> <<"z">>, publication_date |-> <<"1">>],
      [f \in {} |-> NULL] }

TagInputs == {<<"x">>, <<"y">>}

RECURSIVE ListsUpTo(_, _)
\* the sequences over S of length at most n
ListsUpTo(S, n) ==
    IF n = 0 THEN {<<>>}
    ELSE LET shorter == ListsUpTo(S, n - 1)
         IN  shorter \cup {Append(l, x) : l \in shorter, x \in S}

TagLists == ListsUpTo(TagInputs, MaxTagList)

Queries == {<<>>, <<"N">>, <<"_">>}
Sources == {NULL, <<>>, <<"x">>}
FromDates == {NULL, <<"2">>}

(* ------------------------------ operations ----------------------------- *)

Init ==
    /\ papers = <<>>
    /\ tags = <<>>
    /\ paper_tags = <<>>
    /\ conns = 0
    /\ call = [op |-> "__init__"]
    /\ result = RetNone

\* _init_db: closes the connection only when no statement raised
init_db ==
    \E err \in BOOLEAN :
        /\ call' = [op |-> "_init_db", err |-> err]
        /\ papers' = CreateTableIfNotExists(papers)
        /\ tags' = CreateTableIfNotExists(tags)
        /\ paper_tags' = CreateTableIfNotExists(paper_tags)
        /\ result' = IF err THEN Raised ELSE RetNone
        /\ conns' \in (IF err THEN Unclosed(conns) ELSE Closed(conns))

\* add_paper: try / except sqlite3.Error / finally conn.close()
add_paper(Inputs) ==
    \E paper \in Inputs, now \in Times, err \in BOOLEAN :
        LET r == AddPaperRun(papers, paper, now, err)
        IN  /\ call' = [op |-> "add_paper", paper |-> paper, err |-> err]
            /\ papers' = r.papers
            /\ result' = r.ret
            /\ conns' \in Closed(conns)
            /\ UNCHANGED <<tags, paper_tags>>

\* get_paper: no conn.close() on any path
get_paper ==
    \E paper_id \in PaperIds, err \in BOOLEAN :
        /\ call' = [op |-> "get_paper", paper_id |-> paper_id, err |-> err]
        /\ result' = IF err THEN Raised
                     ELSE GetPaperRun(papers, tags, paper_tags, paper_id)
        /\ conns' \in Unclosed(conns)
        /\ UNCHANGED <<papers, tags, paper_tags>>

\* search_papers: conn.close() is the last statement before the return
search_papers(Qs, Ss, Ds) ==
    \E query \in Qs, source \in Ss, from_date \in Ds, err \in BOOLEAN :
        /\ call' = [op |-> "search_papers", query |-> query,
                    source |-> source, from_date |-> from_date, err |-> err]
        /\ result' = IF err THEN Raised
                     ELSE SearchPapersRun(papers, tags, paper_tags,
                                          query, source, from_date)
        /\ conns' \in (IF err THEN Unclosed(conns) ELSE Closed(conns))
        /\ UNCHANGED <<papers, tags, paper_tags>>

\* add_tags: try / except sqlite3.Error: rollback / finally conn.close()
add_tags(Ids, Lists) ==
    \E paper_id \in Ids, tag_list \in Lists :
      \E failAt \in 0..CommitStep(tag_list) :
        LET r == AddTagsRun([tags |-> tags, paper_tags |-> paper_tags],
                            paper_id, tag_list, failAt)
        IN  /\ call' = [op |-> "add_tags", paper_id |-> paper_id,
                        tags |-> tag_list, failAt |-> failAt]
            /\ tags' = r.tags
            /\ paper_tags' = r.paper_tags
            /\ result' = RetNone
            /\ conns' \in Closed(conns)
            /\ UNCHANGED papers

\* update_paper: returns before connecting when no field is valid,
\* else try / except sqlite3.Error / finally conn.close()
update_paper(Inputs) ==
    \E paper_id \in PaperIds, updates \in Inputs, err \in BOOLEAN :
        LET r == UpdatePaperRun(papers, paper_id, updates, err)
        IN  /\ call' = [op |-> "update_paper", paper_id |-> paper_id,
                        updates |-> updates, err |-> err]
            /\ papers' = r.papers
            /\ result' = r.ret
            /\ conns' \in Closed(conns)
            /\ UNCHANGED <<tags, paper_tags>>

(* --------------------------- specifications ---------------------------- *)

\* every operation, each on a few inputs
Next ==
    \/ init_db
    \/ add_paper({PaperGn, PaperB})
    \/ get_paper
    \/ search_papers({<<>>}, {NULL}, {NULL})
    \/ add_tags(PaperIds, {<<>>, <<"x">>, <<"y", "x">>})
    \/ update_paper({UpdateTitle, UpdateBogus})

Spec == Init /\ [][Next]_vars

\* the operations on papers, on all the paper inputs
NextPapers ==
    \/ init_db
    \/ add_paper(PaperInputs)
    \/ get_paper
    \/ search_papers(Queries, Sources, FromDates)
    \/ add_tags({"p1"}, {<<"x">>})
    \/ update_paper(UpdateInputs)

SpecPapers == Init /\ [][NextPapers]_vars

\* add_tags, which reads and writes tags and paper_tags only, on all the tag
\* lists and with a failure at every statement
NextTags == add_tags(PaperIds, TagLists)

SpecTags == Init /\ [][NextTags]_vars

(* ------------------------------- claims -------------------------------- *)

IdsOf(tbl) == {tbl[i].id : i \in 1..Len(tbl)}
NamesOf(tbl) == {tbl[i].name : i \in 1..Len(tbl)}
RowsOf(tbl) == {tbl[i] : i \in 1..Len(tbl)}
IsBool(r, b) == r.kind = "bool" /\ r.val = b
HasComma(text) == \E i \in 1..Len(text) : text[i] = ","

\* C1: add_paper with the id of a stored paper returns False and leaves that
\* row, every other row and both tag tables as they were.
C1_DuplicateAddRejected ==
    [][ (/\ call'.op = "add_paper"
         /\ \E i \in 1..Len(papers) : papers[i].id = call'.paper.id)
        => (/\ IsBool(result', FALSE)
            /\ papers' = papers
            /\ tags' = tags
            /\ paper_tags' = paper_tags) ]_vars

\* a duplicate of p1 with other field values was refused with no storage
\* error, while another paper is stored too
C1_Witness ==
    /\ call.op = "add_paper"
    /\ call.paper = PaperZ
    /\ ~call.err
    /\ IsBool(result, FALSE)
    /\ Len(papers) = 2
    /\ \E i \in 1..Len(papers) :
          papers[i].id = "p1" /\ papers[i].title # PaperZ.title

\* C2: add_tags is all-or-nothing: when a statement of the call fails, tags
\* and paper_tags end as they were before the call; when none fails, every
\* tag of the list has its tag row and its association with the paper.
C2_AddTagsAllOrNothing ==
    [][ call'.op = "add_tags" =>
          IF call'.failAt # 0
          THEN tags' = tags /\ paper_tags' = paper_tags
          ELSE \A k \in 1..Len(call'.tags) :
                 \E i \in 1..Len(tags') :
                    /\ tags'[i].name = call'.tags[k]
                    /\ \E j \in 1..Len(paper_tags') :
                          /\ paper_tags'[j].paper_id = call'.paper_id
                          /\ paper_tags'[j].tag_id = tags'[i].id ]_vars

\* the last statement for the second of two new tags failed, after the first
\* tag, its association and the second tag had been inserted: nothing is stored
C2_Witness ==
    /\ call.op = "add_tags"
    /\ call.tags = << <<"x">>, <<"y">> >>
    /\ call.failAt = 6
    /\ tags = <<>>
    /\ paper_tags = <<>>

C3_AllowList ==
    {"title", "authors", "abstract", "pdf_path", "bibtex_path",
     "endnote_path", "is_paywalled", "summary", "implications",
     "topic_category", "error_log"}

\* C3: update_paper changes only the columns of row paper_id that are keys of
\* updates and in the allow-list; other keys are ignored without error, and
\* the other columns, the other rows, tags and paper_tags are unchanged.
C3_UpdateOnlyAllowed ==
    [][ call'.op = "update_paper" =>
          LET allowed == DOMAIN call'.updates \cap C3_AllowList
          IN  /\ result'.kind = "bool"
              /\ (allowed # {} /\ ~call'.err => result'.val = TRUE)
              /\ Len(papers') = Len(papers)
              /\ \A i \in 1..Len(papers) :
                    IF papers[i].id = call'.paper_id
                    THEN \A c \in Columns \ allowed :
                            papers'[i][c] = papers[i][c]
                    ELSE papers'[i] = papers[i]
              /\ tags' = tags
              /\ paper_tags' = paper_tags ]_vars

\* authors was updated on a stored paper while the id and source keys of the
\* same mapping were ignored, and another paper is stored too
C3_Witness ==
    /\ call.op = "update_paper"
    /\ DOMAIN call.updates = {"authors", "id", "source"}
    /\ IsBool(result, TRUE)
    /\ Len(papers) = 2
    /\ \E i \in 1..Len(papers) :
          /\ papers[i].id = call.paper_id
          /\ papers[i].id # call.updates.id
          /\ papers[i].source # call.updates.source
          /\ papers[i].authors = <<"b", ",", "a">>

\* C4: when updates has no key of the allow-list, update_paper returns False
\* and the store is unchanged, whether or not paper_id is stored.
C4_NoValidFieldFails ==
    [][ (/\ call'.op = "update_paper"
         /\ DOMAIN call'.updates \cap C3_AllowList = {})
        => (/\ IsBool(result', FALSE)
            /\ papers' = papers
            /\ tags' = tags
            /\ paper_tags' = paper_tags) ]_vars

\* an update of a stored paper with column names outside the allow-list was
\* refused with no storage error
C4_Witness ==
    /\ call.op = "update_paper"
    /\ DOMAIN call.updates = {"source", "publication_date"}
    /\ ~call.err
    /\ IsBool(result, FALSE)
    /\ call.paper_id \in IdsOf(papers)

\* every tag of the list is stored and associated with the paper
C5_AlreadyTagged(paper_id, tag_list) ==
    \A k \in 1..Len(tag_list) :
       \E i \in 1..Len(tags) :
          /\ tags[i].name = tag_list[k]
          /\ \E j \in 1..Len(paper_tags) :
                /\ paper_tags[j].paper_id = paper_id
                /\ paper_tags[j].tag_id = tags[i].id

\* C5: tags holds at most one row per name and paper_tags at most one row per
\* (paper_id, tag_id); an add_tags call whose tags are all stored and
\* associated already (as after the same call succeeded) changes nothing.
C5_TagsIdempotent ==
    /\ [](/\ \A i, j \in 1..Len(tags) :
                tags[i].name = tags[j].name => i = j
          /\ \A i, j \in 1..Len(paper_tags) :
                paper_tags[i] = paper_tags[j] => i = j)
    /\ [][ (/\ call'.op = "add_tags"
            /\ C5_AlreadyTagged(call'.paper_id, call'.tags))
           => (tags' = tags /\ paper_tags' = paper_tags) ]_vars

\* add_tags(pid, ["x","x"]) succeeded and left one tag row named x with one
\* association for pid, next to an association of the other paper
C5_Witness ==
    /\ call.op = "add_tags"
    /\ call.tags = << <<"x">>, <<"x">> >>
    /\ call.failAt = 0
    /\ Cardinality({i \in 1..Len(tags) : tags[i].name = <<"x">>}) = 1
    /\ Cardinality({j \in 1..Len(paper_tags) :
                       paper_tags[j].paper_id = call.paper_id}) = 1
    /\ Len(paper_tags) = 2

\* the authors get_paper returns for this id in the current state
C6_AuthorsRead(paper_id) ==
    GetPaperRun(papers, tags, paper_tags, paper_id).val.authors

\* the last operation wrote this authors sequence to a stored paper
C6_Wrote(authors) ==
    \/ /\ call.op = "add_paper"
       /\ IsBool(result, TRUE)
       /\ authors = call.paper.authors
    \/ /\ call.op = "update_paper"
       /\ IsBool(result, TRUE)
       /\ call.paper_id \in IdsOf(papers)
       /\ "authors" \in DOMAIN call.updates
       /\ authors = call.updates.authors

C6_WrittenId == IF call.op = "add_paper" THEN call.paper.id ELSE call.paper_id

C6_AuthorLists ==
    {PaperGn.authors, PaperB.authors, PaperZ.authors, UpdateAuthors.authors}

\* C6 as stated: whatever authors sequence add_paper or update_paper wrote,
\* get_paper returns that sequence.
C6_RoundTripAny ==
    \A authors \in C6_AuthorLists :
       C6_Wrote(authors) => C6_AuthorsRead(C6_WrittenId) = authors

\* C6 (amended): when the authors sequence written by add_paper or
\* update_paper is non-empty and no name in it contains a comma, get_paper
\* returns that sequence: same names, same order, same length.
C6_RoundTripCommaFree ==
    \A authors \in C6_AuthorLists :
       (/\ C6_Wrote(authors)
        /\ authors # <<>>
        /\ \A n \in 1..Len(authors) : ~HasComma(authors[n]))
       => C6_AuthorsRead(C6_WrittenId) = authors

\* update_paper wrote two comma-free names to a paper that add_paper stored
C6_Witness ==
    /\ C6_Wrote(<< <<"b">>, <<"a">> >>)
    /\ call.op = "update_paper"
    /\ C6_AuthorsRead(call.paper_id) = << <<"b">>, <<"a">> >>

\* query is a case-insensitive substring of text
C7_Substring(query, text) ==
    /\ text # NULL
    /\ \E i \in 0..(Len(text) - Len(query)) :
          \A k \in 1..Len(query) : Fold(query[k]) = Fold(text[i + k])

\* the filter the claim states
C7_Matches(row) ==
    /\ (C7_Substring(call.query, row.title)
        \/ C7_Substring(call.query, row.abstract))
    /\ (call.source = NULL \/ row.source = call.source)
    /\ (call.from_date = NULL
        \/ TextGE(row.publication_date, call.from_date))

\* C7: search_papers returns exactly the stored papers whose title or
\* abstract contains query (case-insensitively) and that pass every supplied
\* source and from_date filter, each as get_paper returns it.
C7_SearchExact ==
    (call.op = "search_papers" /\ result.kind = "list") =>
       {result.val[i] : i \in 1..Len(result.val)}
          = {GetPaperRun(papers, tags, paper_tags, row.id).val :
                row \in {r \in RowsOf(papers) : C7_Matches(r)}}

\* C8: no connection is open after any sequence of operations.
C8_NoOpenConnection == conns = 0

\* C9: every paper_tags row refers to a stored paper and a stored tag.
C9_ReferentialIntegrity ==
    \A j \in 1..Len(paper_tags) :
       /\ paper_tags[j].paper_id \in IdsOf(papers)
       /\ paper_tags[j].tag_id \in IdsOf(tags)

\* C10: no paper id, tag name or association ever leaves the store, also
\* across a repeated initialization; a paper row appears only in add_paper
\* and changes only in update_paper.
C10_NeverRemoved ==
    [][ /\ IdsOf(papers) \subseteq IdsOf(papers')
        /\ NamesOf(tags) \subseteq NamesOf(tags')
        /\ RowsOf(paper_tags) \subseteq RowsOf(paper_tags')
        /\ (IdsOf(papers') # IdsOf(papers) => call'.op = "add_paper")
        /\ ((\E r \in RowsOf(papers) : r \notin RowsOf(papers'))
              => call'.op = "update_paper") ]_vars

\* the store was initialized again while it held two papers, two tags and
\* their associations, and still holds them
C10_Witness ==
    /\ call.op = "_init_db"
    /\ ~call.err
    /\ Len(papers) = 2
    /\ Len(tags) = 2
    /\ Len(paper_tags) >= 2

====
